---------------------------- MODULE Spec2Model ----------------------------
(***************************************************************************)
(* Model of the gte text editor: the terminal front-end (src/src/editor.rs)*)
(* and the GUI front-end (src/src/main.rs with src/src/search_module.rs).  *)
(*                                                                         *)
(* A Rust String is modelled as its UTF-8 encoding: a sequence of bytes    *)
(* (naturals 0..255).  Every index the code uses on a String (len, insert, *)
(* remove, split_off, find, slicing) is a byte index, and the model keeps  *)
(* it so.  A char is the sequence of its UTF-8 bytes.                      *)
(***************************************************************************)
EXTENDS Naturals, Integers, Sequences, FiniteSets, TLC

VARIABLES
    editor,     \* the terminal front-end's Editor object (editor.rs:11-23)
    pc,         \* where the running program stands (see Editor::run)
    app,        \* the GUI front-end's TextEditor object (main.rs:34-45)
    program     \* which of the repository's two programs is running

vars == <<editor, pc, app, program>>

-----------------------------------------------------------------------------
(* Bounds of the model.                                                    *)

\* most lines the typed buffer may hold (Enter is not taken beyond it)
MaxLines == 4
\* most bytes the typed buffer may hold in total (InsertChar is not taken beyond it)
MaxBytes == 3
\* most bytes of the terminal search query
MaxQuery == 2
\* most bytes of a file handed to Editor::open_file
MaxFile == 2

\* the chars a key press can carry: 'a' and the two-byte Cyrillic 'б' (U+0431)
KeyChars == { <<97>>, <<208, 177>> }
\* the terminal heights crossterm may report; visible lines are height - 2
Heights == { 3, 4 }

-----------------------------------------------------------------------------
(* Rust's str / String primitives, on byte sequences.                      *)

Min(a, b) == IF a < b THEN a ELSE b
Max(a, b) == IF a > b THEN a ELSE b

\* usize::saturating_sub
saturating_sub(a, b) == IF a >= b THEN a - b ELSE 0

\* s[from..to] with 0-based byte offsets, end exclusive
Slice(s, from, to) == SubSeq(s, from + 1, to)

\* str::is_char_boundary: 0 and len are boundaries, and so is every index whose
\* byte is not a UTF-8 continuation byte (0x80..0xBF)
is_char_boundary(s, i) ==
    \/ i = 0
    \/ i = Len(s)
    \/ (i < Len(s) /\ ~(s[i + 1] \in 128..191))

\* the encoded width of the char whose first byte is b (char::len_utf8)
len_utf8(b) ==
    IF b < 128 THEN 1 ELSE IF b < 224 THEN 2 ELSE IF b < 240 THEN 3 ELSE 4

\* String::insert(idx, ch) panics unless idx is a char boundary
insert_panics(s, idx) == ~is_char_boundary(s, idx)
String_insert(s, idx, ch) == Slice(s, 0, idx) \o ch \o Slice(s, idx, Len(s))

\* String::remove(idx) panics when idx is no char boundary (the slice self[idx..])
\* or when no char starts at idx (idx = len)
remove_panics(s, idx) == ~is_char_boundary(s, idx) \/ idx >= Len(s)
String_remove(s, idx) ==
    Slice(s, 0, idx) \o Slice(s, idx + len_utf8(s[idx + 1]), Len(s))

\* String::split_off(at) panics unless at is a char boundary
split_off_panics(s, at) == ~is_char_boundary(s, at)

\* whether needle occurs in hay at byte offset pos
OccursAt(hay, needle, pos) ==
    /\ pos + Len(needle) <= Len(hay)
    /\ Slice(hay, pos, pos + Len(needle)) = needle

\* hay[start..].find(needle), as an absolute offset; -1 stands for None
find_from(hay, needle, start) ==
    LET hits == { p \in start..Len(hay) : OccursAt(hay, needle, p) }
    IN  IF hits = {} THEN 0 - 1
        ELSE CHOOSE p \in hits : \A q \in hits : p <= q

\* all byte strings of at most n bytes made of the chars of cs
RECURSIVE StringsUpTo(_, _)
StringsUpTo(cs, n) ==
    IF n = 0 THEN { <<>> }
    ELSE LET shorter == StringsUpTo(cs, n - 1)
         IN  shorter \cup { s \o c : s \in shorter, c \in cs }

-----------------------------------------------------------------------------
(* The terminal front-end: Editor (editor.rs).                             *)
(* terminal_size holds the height only (terminal_size.1); the width is     *)
(* used by nothing but the truncation of the two status lines.             *)
(* status_message is display text and is left out.                         *)

\* Editor::new
Editor_new(height) ==
    [ content         |-> << <<>> >>,
      cursor_position |-> [x |-> 0, y |-> 0],
      should_quit     |-> FALSE,
      filename        |-> "None",
      scroll_offset   |-> 0,
      terminal_size   |-> height,
      search_mode     |-> FALSE,
      search_query    |-> <<>>,
      search_matches  |-> <<>>,
      current_match   |-> 0 ]

\* self.content[i], with the code's 0-based index
Line(e, i) == e.content[i + 1]

\* (self.terminal_size.1 - 2) as usize
visible_lines(e) == e.terminal_size - 2

\* update_scroll that scrolls down one line too far when the cursor is below the window
update_scroll_off_by_one(e) ==
    IF e.cursor_position.y >= e.scroll_offset + visible_lines(e)
    THEN [e EXCEPT !.scroll_offset = e.cursor_position.y - visible_lines(e) + 2]
    ELSE IF e.cursor_position.y < e.scroll_offset
    THEN [e EXCEPT !.scroll_offset = e.cursor_position.y]
    ELSE e

\* Editor::update_scroll
update_scroll(e) ==
    IF e.cursor_position.y >= e.scroll_offset + visible_lines(e)
    THEN [e EXCEPT !.scroll_offset = e.cursor_position.y - visible_lines(e) + 1]
    ELSE IF e.cursor_position.y < e.scroll_offset
    THEN [e EXCEPT !.scroll_offset = e.cursor_position.y]
    ELSE e

\* jump_to_match wrapping an index past the end onto a match
jump_to_match_wrapping(e, match_index) ==
    IF e.search_matches # <<>>
    THEN LET wrapped == match_index % Len(e.search_matches)
             mat     == e.search_matches[wrapped + 1]
         IN  [e EXCEPT !.cursor_position = [x |-> mat.start, y |-> mat.line],
                       !.current_match = wrapped]
    ELSE e

\* Editor::jump_to_match
jump_to_match(e, match_index) ==
    IF match_index < Len(e.search_matches)
    THEN LET mat == e.search_matches[match_index + 1]
         IN  [e EXCEPT !.cursor_position = [x |-> mat.start, y |-> mat.line],
                       !.current_match = match_index]
    ELSE e

\* the inner loop resuming one byte after the match's start, not at its end
RECURSIVE line_matches_overlapping(_, _, _, _)
line_matches_overlapping(line_num, line, query, start) ==
    LET absolute_pos == find_from(line, query, start)
    IN  IF absolute_pos < 0 THEN <<>>
        ELSE LET end_pos == absolute_pos + Len(query)
             IN  << [line |-> line_num, start |-> absolute_pos, end |-> end_pos] >>
                 \o line_matches_overlapping(line_num, line, query, absolute_pos + 1)

\* the inner loop of Editor::perform_search on one line: the matches of query in
\* line from byte offset start on, each scan resuming at the previous match's end
RECURSIVE line_matches(_, _, _, _)
line_matches(line_num, line, query, start) ==
    LET absolute_pos == find_from(line, query, start)
    IN  IF absolute_pos < 0 THEN <<>>
        ELSE LET end_pos == absolute_pos + Len(query)
             IN  << [line |-> line_num, start |-> absolute_pos, end |-> end_pos] >>
                 \o line_matches(line_num, line, query, end_pos)

\* the outer loop of Editor::perform_search: lines line_num.. of content in order
RECURSIVE content_matches(_, _, _)
content_matches(content, query, line_num) ==
    IF line_num >= Len(content) THEN <<>>
    ELSE line_matches(line_num, content[line_num + 1], query, 0)
         \o content_matches(content, query, line_num + 1)

\* perform_search returning on an empty query before it clears the matches
perform_search_keeps_matches(e) ==
    IF e.search_query = <<>> THEN e
    ELSE LET found == [e EXCEPT !.current_match = 0,
                                !.search_matches =
                                    content_matches(e.content, e.search_query, 0)]
         IN  IF found.search_matches # <<>> THEN jump_to_match(found, 0)
             ELSE found

\* Editor::perform_search
perform_search(e) ==
    LET cleared == [e EXCEPT !.search_matches = <<>>, !.current_match = 0]
    IN  IF e.search_query = <<>> THEN cleared
        ELSE LET found == [cleared EXCEPT !.search_matches =
                               content_matches(e.content, e.search_query, 0)]
             IN  IF found.search_matches # <<>> THEN jump_to_match(found, 0)
                 ELSE found

\* find_next_match stopping at the last match instead of wrapping
find_next_match_no_wrap(e) ==
    IF e.search_matches # <<>>
    THEN LET next == Min(e.current_match + 1, Len(e.search_matches) - 1)
         IN  jump_to_match([e EXCEPT !.current_match = next], next)
    ELSE e

\* find_next_match that advances the index without moving the cursor
find_next_match_no_jump(e) ==
    IF e.search_matches # <<>>
    THEN [e EXCEPT !.current_match = (e.current_match + 1) % Len(e.search_matches)]
    ELSE e

\* Editor::find_next_match
find_next_match(e) ==
    IF e.search_matches # <<>>
    THEN LET next == (e.current_match + 1) % Len(e.search_matches)
         IN  jump_to_match([e EXCEPT !.current_match = next], next)
    ELSE e

\* enter_search_mode that keeps the query of the search before
enter_search_mode_keeps_query(e) ==
    [e EXCEPT !.search_mode = TRUE, !.search_matches = <<>>, !.current_match = 0]

\* Editor::enter_search_mode
enter_search_mode(e) ==
    [e EXCEPT !.search_mode = TRUE, !.search_query = <<>>,
              !.search_matches = <<>>, !.current_match = 0]

\* exit_search_mode that keeps the matches
exit_search_mode_keeps_matches(e) ==
    [e EXCEPT !.search_mode = FALSE, !.current_match = 0]

\* Editor::exit_search_mode
exit_search_mode(e) ==
    [e EXCEPT !.search_mode = FALSE, !.search_matches = <<>>, !.current_match = 0]

\* Editor::scroll_page_up
scroll_page_up(e) ==
    IF e.scroll_offset >= visible_lines(e)
    THEN LET y == saturating_sub(e.cursor_position.y, visible_lines(e))
         IN  [e EXCEPT !.scroll_offset = e.scroll_offset - visible_lines(e),
                       !.cursor_position =
                           [x |-> Min(e.cursor_position.x, Len(Line(e, y))), y |-> y]]
    ELSE e

\* scroll_page_down without the clamp of scroll_offset to the buffer's end
scroll_page_down_unclamped(e) ==
    LET y == Min(e.cursor_position.y + visible_lines(e), Len(e.content) - 1)
    IN  [e EXCEPT !.scroll_offset = e.scroll_offset + visible_lines(e),
                  !.cursor_position =
                      [x |-> Min(e.cursor_position.x, Len(Line(e, y))), y |-> y]]

\* Editor::scroll_page_down
scroll_page_down(e) ==
    LET limit  == saturating_sub(Len(e.content), visible_lines(e))
        scroll == e.scroll_offset + visible_lines(e)
        y      == Min(e.cursor_position.y + visible_lines(e), Len(e.content) - 1)
    IN  [e EXCEPT !.scroll_offset = IF scroll > limit THEN limit ELSE scroll,
                  !.cursor_position =
                      [x |-> Min(e.cursor_position.x, Len(Line(e, y))), y |-> y]]

\* Editor::insert_char aborts when String::insert does
insert_char_panics(e) ==
    /\ e.cursor_position.y < Len(e.content)
    /\ e.cursor_position.x <= Len(Line(e, e.cursor_position.y))
    /\ insert_panics(Line(e, e.cursor_position.y), e.cursor_position.x)

\* Editor::insert_char
insert_char(e, c) ==
    LET pushed == IF e.cursor_position.y >= Len(e.content)
                  THEN Append(e.content, <<>>) ELSE e.content
        y      == e.cursor_position.y
        x      == e.cursor_position.x
    IN  IF x <= Len(pushed[y + 1])
        THEN [e EXCEPT !.content = [pushed EXCEPT ![y + 1] = String_insert(@, x, c)],
                       !.cursor_position.x = x + 1]
        ELSE [e EXCEPT !.content = pushed]

\* Editor::delete_char aborts when String::remove does
delete_char_panics(e) ==
    /\ e.cursor_position.x > 0
    /\ remove_panics(Line(e, e.cursor_position.y), e.cursor_position.x - 1)

\* Vec::remove(i) and the line it returns, with the code's 0-based index
Vec_remove(v, i) == SubSeq(v, 1, i) \o SubSeq(v, i + 2, Len(v))

\* delete_char that at the start of the document deletes the char under the cursor
delete_char_forward_at_start(e) ==
    LET x == e.cursor_position.x
        y == e.cursor_position.y
    IN  IF x > 0
        THEN [e EXCEPT !.content[y + 1] = String_remove(@, x - 1),
                       !.cursor_position.x = x - 1]
        ELSE IF y > 0
        THEN LET current_line == Line(e, y)
                 removed      == Vec_remove(e.content, y)
                 prev_line    == removed[y]
             IN  [e EXCEPT !.content = [removed EXCEPT ![y] = prev_line \o current_line],
                           !.cursor_position = [x |-> Len(prev_line), y |-> y - 1]]
        ELSE IF Line(e, 0) # <<>>
        THEN [e EXCEPT !.content[1] = String_remove(@, 0)]
        ELSE e

\* Editor::delete_char
delete_char(e) ==
    LET x == e.cursor_position.x
        y == e.cursor_position.y
    IN  IF x > 0
        THEN [e EXCEPT !.content[y + 1] = String_remove(@, x - 1),
                       !.cursor_position.x = x - 1]
        ELSE IF y > 0
        THEN LET current_line == Line(e, y)
                 removed      == Vec_remove(e.content, y)
                 prev_line    == removed[y]
             IN  [e EXCEPT !.content = [removed EXCEPT ![y] = prev_line \o current_line],
                           !.cursor_position = [x |-> Len(prev_line), y |-> y - 1]]
        ELSE e

\* Editor::insert_newline aborts when String::split_off does
insert_newline_panics(e) ==
    split_off_panics(Line(e, e.cursor_position.y), e.cursor_position.x)

\* Vec::insert(i, v), with the code's 0-based index
Vec_insert(v, i, elem) == SubSeq(v, 1, i) \o <<elem>> \o SubSeq(v, i + 1, Len(v))

\* Editor::insert_newline
insert_newline(e) ==
    LET x            == e.cursor_position.x
        y            == e.cursor_position.y
        current_line == Line(e, y)
        new_line     == Slice(current_line, x, Len(current_line))
        kept         == [e.content EXCEPT ![y + 1] = Slice(current_line, 0, x)]
    IN  [e EXCEPT !.content = Vec_insert(kept, y + 1, new_line),
                  !.cursor_position = [x |-> 0, y |-> y + 1]]

\* move_cursor_left that from column 0 goes to the start of the previous line
move_cursor_left_to_line_start(e) ==
    IF e.cursor_position.x > 0
    THEN [e EXCEPT !.cursor_position.x = @ - 1]
    ELSE IF e.cursor_position.y > 0
    THEN [e EXCEPT !.cursor_position = [x |-> 0, y |-> e.cursor_position.y - 1]]
    ELSE e

\* Editor::move_cursor_left
move_cursor_left(e) ==
    IF e.cursor_position.x > 0
    THEN [e EXCEPT !.cursor_position.x = @ - 1]
    ELSE IF e.cursor_position.y > 0
    THEN [e EXCEPT !.cursor_position =
              [x |-> Len(Line(e, e.cursor_position.y - 1)), y |-> e.cursor_position.y - 1]]
    ELSE e

\* Editor::move_cursor_right
move_cursor_right(e) ==
    LET current_line_len == Len(Line(e, e.cursor_position.y))
    IN  IF e.cursor_position.x < current_line_len
        THEN [e EXCEPT !.cursor_position.x = @ + 1]
        ELSE IF e.cursor_position.y < Len(e.content) - 1
        THEN [e EXCEPT !.cursor_position = [x |-> 0, y |-> e.cursor_position.y + 1]]
        ELSE e

\* move_cursor_up without the clamp of the column to the destination line
move_cursor_up_unclamped(e) ==
    IF e.cursor_position.y > 0
    THEN [e EXCEPT !.cursor_position.y = @ - 1]
    ELSE e

\* Editor::move_cursor_up
move_cursor_up(e) ==
    IF e.cursor_position.y > 0
    THEN LET y == e.cursor_position.y - 1
         IN  [e EXCEPT !.cursor_position =
                  [x |-> Min(e.cursor_position.x, Len(Line(e, y))), y |-> y]]
    ELSE e

\* move_cursor_down that moves past the last line
move_cursor_down_past_end(e) ==
    LET y == e.cursor_position.y + 1
    IN  [e EXCEPT !.cursor_position =
             [x |-> IF y < Len(e.content) THEN Min(e.cursor_position.x, Len(Line(e, y)))
                    ELSE 0,
              y |-> y]]

\* Editor::move_cursor_down
move_cursor_down(e) ==
    IF e.cursor_position.y < Len(e.content) - 1
    THEN LET y == e.cursor_position.y + 1
         IN  [e EXCEPT !.cursor_position =
                  [x |-> Min(e.cursor_position.x, Len(Line(e, y))), y |-> y]]
    ELSE e

\* [String]::join(sep)
RECURSIVE Vec_join(_, _)
Vec_join(v, sep) ==
    IF v = <<>> THEN <<>>
    ELSE IF Len(v) = 1 THEN v[1]
    ELSE v[1] \o sep \o Vec_join(Tail(v), sep)

\* Editor::save_file: the text it hands to fs::write
save_file_written(e) == Vec_join(e.content, <<10>>)

\* Editor::save_file, as far as the Editor changes: the file name it settles on
save_file(e) ==
    IF e.filename # "None" THEN e ELSE [e EXCEPT !.filename = "output.txt"]

\* str::lines: the text cut at each "\n" (byte 10), a "\r" (byte 13) right before
\* the "\n" dropped with it; a last line without "\n" is kept as it is
RECURSIVE str_lines(_)
str_lines(s) ==
    IF s = <<>> THEN <<>>
    ELSE LET nl == find_from(s, <<10>>, 0)
         IN  IF nl < 0 THEN <<s>>
             ELSE LET line == Slice(s, 0, nl)
                      bare == IF line # <<>> /\ line[Len(line)] = 13
                              THEN Slice(line, 0, Len(line) - 1) ELSE line
                  IN  <<bare>> \o str_lines(Slice(s, nl + 1, Len(s)))

\* open_file without the push of an empty line into an empty buffer
open_file_keeps_empty(e, file_text) ==
    [e EXCEPT !.content = str_lines(file_text), !.filename = "opened"]

\* Editor::open_file, given the text fs::read_to_string returned
open_file(e, file_text) ==
    LET lines == str_lines(file_text)
    IN  [e EXCEPT !.content = IF lines = <<>> THEN << <<>> >> ELSE lines,
                  !.filename = "opened"]

\* key events: crossterm's KeyEvent {code, modifiers}; c is the char of KeyCode::Char
Key(code, c, modifiers) == [code |-> code, c |-> c, modifiers |-> modifiers]

\* Editor::process_normal_keypress: the arms of its match, in their order
process_normal_keypress(e, key) ==
    IF key.code = "Char" /\ key.c = <<113>> /\ key.modifiers = "CONTROL"
    THEN [e EXCEPT !.should_quit = TRUE]
    ELSE IF key.code = "Char" /\ key.c = <<115>> /\ key.modifiers = "CONTROL"
    THEN save_file(e)
    ELSE IF key.code = "Char" /\ key.c = <<102>> /\ key.modifiers = "CONTROL"
    THEN enter_search_mode(e)
    ELSE IF key.code = "PageUp" THEN scroll_page_up(e)
    ELSE IF key.code = "PageDown" THEN scroll_page_down(e)
    ELSE IF key.code = "Char" THEN insert_char(e, key.c)
    ELSE IF key.code = "Backspace" THEN delete_char(e)
    ELSE IF key.code = "Enter" THEN insert_newline(e)
    ELSE IF key.code = "Left" THEN move_cursor_left(e)
    ELSE IF key.code = "Right" THEN move_cursor_right(e)
    ELSE IF key.code = "Up" THEN move_cursor_up(e)
    ELSE IF key.code = "Down" THEN move_cursor_down(e)
    ELSE e

\* whether process_normal_keypress aborts on a String operation's panic
process_normal_keypress_panics(e, key) ==
    IF key.code = "Char" /\ key.modifiers = "CONTROL"
       /\ key.c \in { <<113>>, <<115>>, <<102>> }
    THEN FALSE
    ELSE IF key.code = "Char" THEN insert_char_panics(e)
    ELSE IF key.code = "Backspace" THEN delete_char_panics(e)
    ELSE IF key.code = "Enter" THEN insert_newline_panics(e)
    ELSE FALSE

\* String::pop: the string without its last char
RECURSIVE String_pop(_)
String_pop(s) ==
    IF s = <<>> THEN s
    ELSE IF s[Len(s)] \in 128..191 THEN String_pop(Slice(s, 0, Len(s) - 1))
    ELSE Slice(s, 0, Len(s) - 1)

\* process_search_keypress in which Ctrl-Q quits as it does in Normal mode
process_search_keypress_ctrl_q_quits(e, key) ==
    IF key.code = "Char" /\ key.c = <<113>> /\ key.modifiers = "CONTROL"
    THEN [e EXCEPT !.should_quit = TRUE]
    ELSE IF key.code = "Esc" \/ key.code = "Enter" THEN exit_search_mode(e)
    ELSE IF key.code = "Char" /\ key.c = <<102>> /\ key.modifiers = "CONTROL"
    THEN find_next_match(e)
    ELSE IF key.code = "Backspace"
    THEN IF e.search_query # <<>>
         THEN perform_search([e EXCEPT !.search_query = String_pop(@)])
         ELSE e
    ELSE IF key.code = "Char"
    THEN perform_search([e EXCEPT !.search_query = @ \o key.c])
    ELSE e

\* process_search_keypress whose Char arm ignores keys pressed with Ctrl
process_search_keypress_ctrl_ignored(e, key) ==
    IF key.code = "Esc" \/ key.code = "Enter" THEN exit_search_mode(e)
    ELSE IF key.code = "Char" /\ key.c = <<102>> /\ key.modifiers = "CONTROL"
    THEN find_next_match(e)
    ELSE IF key.code = "Backspace"
    THEN IF e.search_query # <<>>
         THEN perform_search([e EXCEPT !.search_query = String_pop(@)])
         ELSE e
    ELSE IF key.code = "Char" /\ key.modifiers # "CONTROL"
    THEN perform_search([e EXCEPT !.search_query = @ \o key.c])
    ELSE e

\* Editor::process_search_keypress: the arms of its match, in their order
process_search_keypress(e, key) ==
    IF key.code = "Esc" \/ key.code = "Enter" THEN exit_search_mode(e)
    ELSE IF key.code = "Char" /\ key.c = <<102>> /\ key.modifiers = "CONTROL"
    THEN find_next_match(e)
    ELSE IF key.code = "Backspace"
    THEN IF e.search_query # <<>>
         THEN perform_search([e EXCEPT !.search_query = String_pop(@)])
         ELSE e
    ELSE IF key.code = "Char"
    THEN perform_search([e EXCEPT !.search_query = @ \o key.c])
    ELSE e

\* Editor::process_keypress
process_keypress(e, key) ==
    IF e.search_mode THEN process_search_keypress(e, key)
    ELSE process_normal_keypress(e, key)

process_keypress_panics(e, key) ==
    ~e.search_mode /\ process_normal_keypress_panics(e, key)

-----------------------------------------------------------------------------
(* The terminal program: Editor::run.                                      *)
(* pc = "refresh": at the head of the loop; "key": the screen is drawn and *)
(* the program waits in event::read; "done": the loop has ended;           *)
(* "panicked": a String operation aborted the program.                     *)

\* the texts a file handed to open_file may hold: 'a' and "\n"
FileTexts == { s \in StringsUpTo({ <<97>>, <<10>> }, MaxFile) : Len(s) <= MaxFile }

\* the bytes the buffer holds
ContentBytes(e) ==
    LET RECURSIVE sum(_)
        sum(i) == IF i = 0 THEN 0 ELSE Len(e.content[i]) + sum(i - 1)
    IN  sum(Len(e.content))

InitTerminal ==
    /\ program = "terminal"
    /\ pc = "refresh"
    /\ \E h \in Heights :
          \/ editor = Editor_new(h)
          \/ \E t \in FileTexts : editor = open_file(Editor_new(h), t)

\* the loop's update_terminal_size and refresh_screen: the size crossterm reports,
\* then update_scroll; drawing changes no state
Refresh ==
    /\ program = "terminal"
    /\ pc = "refresh"
    /\ \E h \in Heights :
          editor' = update_scroll([editor EXCEPT !.terminal_size = h])
    /\ pc' = "key"
    /\ UNCHANGED <<app, program>>

\* the loop's process_keypress on one key event
KeyPress(key) ==
    /\ program = "terminal"
    /\ pc = "key"
    /\ IF process_keypress_panics(editor, key)
       THEN pc' = "panicked" /\ UNCHANGED editor
       ELSE /\ editor' = process_keypress(editor, key)
            /\ pc' = IF editor'.should_quit THEN "done" ELSE "refresh"
    /\ UNCHANGED <<app, program>>

NoChar == <<>>

\* the key events event::read can deliver: the codes the two matches name and one
\* they do not, the chars of KeyChars and 'f', 'q', 's', 'F', and the modifiers
Modifiers == { "NONE", "SHIFT", "CONTROL", "ALT", "CONTROL|SHIFT" }
KeyEvents ==
    { Key(code, NoChar, m) :
        code \in { "Esc", "Enter", "Backspace", "Left", "Right", "Up", "Down",
                   "PageUp", "PageDown", "F1" },
        m \in Modifiers }
    \cup { Key("Char", c, m) :
             c \in KeyChars \cup { <<102>>, <<113>>, <<115>>, <<70>> },
             m \in Modifiers }

Quit        == ~editor.search_mode /\ KeyPress(Key("Char", <<113>>, "CONTROL"))
Save        == ~editor.search_mode /\ KeyPress(Key("Char", <<115>>, "CONTROL"))
EnterSearch == ~editor.search_mode /\ KeyPress(Key("Char", <<102>>, "CONTROL"))
PageUp      == ~editor.search_mode /\ KeyPress(Key("PageUp", NoChar, "NONE"))
PageDown    == ~editor.search_mode /\ KeyPress(Key("PageDown", NoChar, "NONE"))
InsertChar ==
    /\ ~editor.search_mode
    /\ \E c \in KeyChars :
          /\ ContentBytes(editor) + Len(c) <= MaxBytes
          /\ KeyPress(Key("Char", c, "NONE"))
Backspace   == ~editor.search_mode /\ KeyPress(Key("Backspace", NoChar, "NONE"))
Enter ==
    /\ ~editor.search_mode
    /\ Len(editor.content) < MaxLines
    /\ KeyPress(Key("Enter", NoChar, "NONE"))
ArrowLeft   == ~editor.search_mode /\ KeyPress(Key("Left", NoChar, "NONE"))
ArrowRight  == ~editor.search_mode /\ KeyPress(Key("Right", NoChar, "NONE"))
ArrowUp     == ~editor.search_mode /\ KeyPress(Key("Up", NoChar, "NONE"))
ArrowDown   == ~editor.search_mode /\ KeyPress(Key("Down", NoChar, "NONE"))

ExitSearch ==
    /\ editor.search_mode
    /\ \E code \in {"Esc", "Enter"} : KeyPress(Key(code, NoChar, "NONE"))
SearchNext  == editor.search_mode /\ KeyPress(Key("Char", <<102>>, "CONTROL"))
SearchBackspace == editor.search_mode /\ KeyPress(Key("Backspace", NoChar, "NONE"))
SearchInput ==
    /\ editor.search_mode
    /\ \E c \in KeyChars :
          /\ Len(editor.search_query) + Len(c) <= MaxQuery
          /\ KeyPress(Key("Char", c, "NONE"))
\* Ctrl+Q or Ctrl+S pressed in Search mode
SearchControlChar ==
    /\ editor.search_mode
    /\ Len(editor.search_query) + 1 <= MaxQuery
    /\ \E c \in { <<113>>, <<115>> } : KeyPress(Key("Char", c, "CONTROL"))
\* a key neither match handles (function keys, Tab, ...), in either mode
OtherKey    == KeyPress(Key("F1", NoChar, "NONE"))

\* a pass of the loop in which the terminal has kept its size
RefreshSameSize == Refresh /\ editor'.terminal_size = editor.terminal_size

NextKey ==
    \/ Quit \/ Save \/ EnterSearch \/ PageUp \/ PageDown
    \/ InsertChar \/ Backspace \/ Enter
    \/ ArrowLeft \/ ArrowRight \/ ArrowUp \/ ArrowDown
    \/ ExitSearch \/ SearchNext \/ SearchBackspace \/ SearchInput
    \/ OtherKey

NextTerminal == Refresh \/ NextKey

-----------------------------------------------------------------------------
(* The GUI front-end: SearchModule (search_module.rs).                     *)
(* A match is a pair <<start, end>> of byte offsets.  focus_search_field,  *)
(* which only asks egui to focus the search field, is left out.            *)

\* char::to_lowercase, on the UTF-8 bytes of one char: ASCII A-Z, the Cyrillic
\* capitals U+0410..U+042F, and two chars whose lower case has another encoded
\* width (U+212A KELVIN SIGN -> 'k', U+0130 -> 'i' + U+0307); every other char
\* of the model's alphabets is its own lower case
char_to_lowercase(c) ==
    IF Len(c) = 1 /\ c[1] \in 65..90 THEN << c[1] + 32 >>
    ELSE IF Len(c) = 2 /\ c[1] = 208 /\ c[2] \in 144..159 THEN << 208, c[2] + 32 >>
    ELSE IF Len(c) = 2 /\ c[1] = 208 /\ c[2] \in 160..175 THEN << 209, c[2] - 32 >>
    ELSE IF c = << 226, 132, 170 >> THEN << 107 >>
    ELSE IF c = << 196, 176 >> THEN << 105, 204, 135 >>
    ELSE c

\* str::to_lowercase: char by char
RECURSIVE to_lowercase(_)
to_lowercase(s) ==
    IF s = <<>> THEN <<>>
    ELSE LET w == Min(len_utf8(s[1]), Len(s))
         IN  char_to_lowercase(Slice(s, 0, w)) \o to_lowercase(Slice(s, w, Len(s)))

\* SearchModule::new
SearchModule_new ==
    [ search_text        |-> <<>>,
      case_sensitive     |-> FALSE,
      show_search        |-> FALSE,
      matches            |-> <<>>,
      current_match      |-> 0 ]

\* SearchModule::toggle_search
toggle_search(sm) ==
    IF ~sm.show_search
    THEN [sm EXCEPT !.show_search = TRUE]
    ELSE [sm EXCEPT !.show_search = FALSE, !.search_text = <<>>,
                    !.matches = <<>>, !.current_match = 0]

\* the loop of SearchModule::search_in_text: the matches of search_pattern in
\* text_to_search from byte offset start on
RECURSIVE scan_matches(_, _, _)
scan_matches(text_to_search, search_pattern, start) ==
    LET absolute_pos == find_from(text_to_search, search_pattern, start)
    IN  IF absolute_pos < 0 THEN <<>>
        ELSE LET end_pos == absolute_pos + Len(search_pattern)
             IN  << <<absolute_pos, end_pos>> >>
                 \o scan_matches(text_to_search, search_pattern, end_pos)

\* search_in_text lower-casing the query alone, not the text
search_in_text_text_as_is(sm, text) ==
    LET cleared == [sm EXCEPT !.matches = <<>>, !.current_match = 0]
    IN  IF sm.search_text = <<>> THEN cleared
        ELSE LET search_pattern == IF sm.case_sensitive THEN sm.search_text
                                   ELSE to_lowercase(sm.search_text)
             IN  [cleared EXCEPT !.matches = scan_matches(text, search_pattern, 0)]

\* search_in_text that keeps the index of the current match
search_in_text_keeps_index(sm, text) ==
    LET cleared == [sm EXCEPT !.matches = <<>>]
    IN  IF sm.search_text = <<>> THEN cleared
        ELSE LET search_pattern == IF sm.case_sensitive THEN sm.search_text
                                   ELSE to_lowercase(sm.search_text)
                 text_to_search == IF sm.case_sensitive THEN text
                                   ELSE to_lowercase(text)
             IN  [cleared EXCEPT !.matches =
                      scan_matches(text_to_search, search_pattern, 0)]

\* SearchModule::search_in_text
search_in_text(sm, text) ==
    LET cleared == [sm EXCEPT !.matches = <<>>, !.current_match = 0]
    IN  IF sm.search_text = <<>> THEN cleared
        ELSE LET search_pattern == IF sm.case_sensitive THEN sm.search_text
                                   ELSE to_lowercase(sm.search_text)
                 text_to_search == IF sm.case_sensitive THEN text
                                   ELSE to_lowercase(text)
             IN  [cleared EXCEPT !.matches =
                      scan_matches(text_to_search, search_pattern, 0)]

\* next_match without the wrap to index 0
next_match_no_wrap(sm) ==
    IF sm.matches # <<>>
    THEN [sm EXCEPT !.current_match = sm.current_match + 1]
    ELSE sm

\* SearchModule::next_match
next_match(sm) ==
    IF sm.matches # <<>>
    THEN [sm EXCEPT !.current_match = (sm.current_match + 1) % Len(sm.matches)]
    ELSE sm

\* previous_match staying at index 0 instead of wrapping to the last match
previous_match_no_wrap(sm) ==
    IF sm.matches # <<>> /\ sm.current_match > 0
    THEN [sm EXCEPT !.current_match = sm.current_match - 1]
    ELSE sm

\* SearchModule::previous_match
previous_match(sm) ==
    IF sm.matches # <<>>
    THEN IF sm.current_match = 0
         THEN [sm EXCEPT !.current_match = Len(sm.matches) - 1]
         ELSE [sm EXCEPT !.current_match = sm.current_match - 1]
    ELSE sm

\* SearchModule::get_current_match_position; <<>> stands for None
get_current_match_position(sm) ==
    IF sm.current_match < Len(sm.matches)
    THEN << sm.matches[sm.current_match + 1] >>
    ELSE <<>>

\* what one frame brings: a pressed shortcut key, what was typed into the search
\* field and into the text area, the widget the pointer clicked, and what a
\* file dialog or a file operation it opens answered
NoInput ==
    [ key         |-> "none",
      search_edit |-> [changed |-> FALSE, value |-> <<>>],
      click       |-> "none",
      text_edit   |-> [changed |-> FALSE, value |-> <<>>],
      file        |-> [ok |-> FALSE, text |-> <<>>] ]

\* SearchModule::handle_shortcuts
handle_shortcuts(sm, inp) ==
    LET toggled == IF inp.key = "ctrl_f" THEN toggle_search(sm) ELSE sm
        stepped == IF toggled.show_search
                   THEN IF inp.key = "f3" THEN next_match(toggled)
                        ELSE IF inp.key = "shift_f3" THEN previous_match(toggled)
                        ELSE toggled
                   ELSE toggled
    IN  [sm |-> stepped, search_needed |-> (inp.key = "ctrl_f")]

\* SearchModule::show_search_panel
show_search_panel(sm, inp) ==
    IF ~sm.show_search THEN [sm |-> sm, result |-> "None"]
    ELSE LET edited  == IF inp.search_edit.changed
                        THEN [sm EXCEPT !.search_text = inp.search_edit.value]
                        ELSE sm
             r1      == IF inp.search_edit.changed THEN "SearchNeeded" ELSE "None"
             r2      == IF inp.click = "close_button" THEN "Close" ELSE r1
             checked == IF inp.click = "checkbox"
                        THEN [edited EXCEPT !.case_sensitive = ~@] ELSE edited
             r3      == IF inp.click = "checkbox" THEN "SearchNeeded" ELSE r2
             arrows  == checked.search_text # <<>> /\ Len(checked.matches) > 1
             r4      == IF arrows /\ inp.click = "previous" THEN "PreviousMatch" ELSE r3
             r5      == IF arrows /\ inp.click = "next" THEN "NextMatch" ELSE r4
             r6      == IF r5 = "None"
                           /\ (sm.search_text # checked.search_text
                               \/ sm.case_sensitive # checked.case_sensitive)
                        THEN "SearchNeeded" ELSE r5
             closed  == IF inp.click = "window_close"
                        THEN [checked EXCEPT !.show_search = FALSE] ELSE checked
         IN  [sm |-> closed, result |-> r6]

-----------------------------------------------------------------------------
(* The GUI front-end: TextEditor (main.rs).  The error message, the music  *)
(* player, the file name and the drawing are left out.                     *)

\* most bytes of the GUI text (edits and loaded files stay within it)
MaxText == 2
\* most bytes of the GUI search field
MaxSearchText == 2

\* the texts of the text area and of loaded files: 'a' and 'A'
GuiTexts ==
    { s \in StringsUpTo({ <<97>>, <<65>> }, MaxText) : Len(s) <= MaxText }
\* the texts of the single-line search field: 'a' and 'A'
GuiQueries ==
    { s \in StringsUpTo({ <<97>>, <<65>> }, MaxSearchText) : Len(s) <= MaxSearchText }

\* TextEditor::default
TextEditor_default ==
    [ text             |-> <<>>,
      unsaved_changes  |-> FALSE,
      show_save_dialog |-> FALSE,
      search_module    |-> SearchModule_new ]

\* TextEditor::open_txt_file, open_docx_file and open_doc_file: all three store
\* the text they read or extracted the same way; inp.file.ok is whether the read
\* succeeded
open_file_with(a, file) ==
    IF file.ok
    THEN [a EXCEPT !.text = file.text, !.unsaved_changes = FALSE,
                   !.search_module.matches = <<>>]
    ELSE a

\* TextEditor::save_file and save_as; file.ok is whether a path was there or
\* chosen and fs::write succeeded
gui_save_file(a, file) ==
    IF file.ok THEN [a EXCEPT !.unsaved_changes = FALSE]
    ELSE a

\* TextEditor::new_file
new_file(a) ==
    IF a.unsaved_changes THEN [a EXCEPT !.show_save_dialog = TRUE]
    ELSE [a EXCEPT !.text = <<>>, !.unsaved_changes = FALSE,
                   !.search_module.matches = <<>>]

\* TextEditor::handle_search
handle_search(a, inp) ==
    LET shortcuts == handle_shortcuts(a.search_module, inp)
        panel     == show_search_panel(shortcuts.sm, inp)
        sm        == panel.sm
        handled   == IF panel.result = "SearchNeeded" THEN search_in_text(sm, a.text)
                     ELSE IF panel.result = "NextMatch" THEN next_match(sm)
                     ELSE IF panel.result = "PreviousMatch" THEN previous_match(sm)
                     ELSE IF panel.result = "Close" THEN toggle_search(sm)
                     ELSE sm
        searched  == IF shortcuts.search_needed /\ handled.show_search
                     THEN search_in_text(handled, a.text) ELSE handled
    IN  [a EXCEPT !.search_module = searched]

\* str::chars().count(): the bytes that are not UTF-8 continuation bytes
chars_count(s) == Cardinality({ i \in 1..Len(s) : s[i] \notin 128..191 })

\* TextEditor::highlight_matches: the rectangles it paints, in the order of its
\* loops, each as the line and the columns it covers (x = column * char_width,
\* y = line_index * row_height), the match (start, end) it was painted for and
\* whether it is painted as the current match
highlight_matches(a) ==
    LET matches == a.search_module.matches
        lines   == str_lines(a.text)
        current_match_index == a.search_module.current_match
        RECURSIVE line_start(_)
        line_start(k) == IF k = 0 THEN 0
                         ELSE line_start(k - 1) + chars_count(lines[k]) + 1
        position(m) == CHOOSE i \in 0..(Len(matches) - 1) :
                           /\ matches[i + 1] = m
                           /\ \A j \in 0..(i - 1) : matches[j + 1] # m
        of_line(k) ==
            LET first == line_start(k)
                last  == first + chars_count(lines[k + 1])
                here  == SelectSeq(matches, LAMBDA m : m[1] >= first /\ m[2] <= last)
            IN  [i \in 1..Len(here) |->
                    [ line_index |-> k,
                      start_col  |-> here[i][1] - first,
                      end_col    |-> here[i][2] - first,
                      span       |-> here[i],
                      is_current |-> position(here[i]) = current_match_index ]]
        RECURSIVE from_line(_)
        from_line(k) == IF k >= Len(lines) THEN <<>>
                        ELSE of_line(k) \o from_line(k + 1)
    IN  IF matches = <<>> THEN <<>> ELSE from_line(0)

\* TextEditor::update, the menu bar: the clicked item's handler
menu_bar(a, inp) ==
    IF inp.click = "menu_new" THEN new_file(a)
    ELSE IF inp.click = "menu_open" THEN open_file_with(a, inp.file)
    ELSE IF inp.click = "menu_save" THEN gui_save_file(a, inp.file)
    ELSE IF inp.click = "menu_find"
    THEN [a EXCEPT !.search_module = toggle_search(@)]
    ELSE a

\* TextEditor::update, the central panel: the text area and response.changed()
central_panel(a, inp) ==
    IF inp.text_edit.changed
    THEN LET edited == [a EXCEPT !.text = inp.text_edit.value,
                                 !.unsaved_changes = TRUE]
         IN  IF edited.search_module.show_search
                /\ edited.search_module.search_text # <<>>
             THEN [edited EXCEPT !.search_module = search_in_text(@, edited.text)]
             ELSE edited
    ELSE a

\* TextEditor::update, the save dialog
save_dialog(a, inp) ==
    IF ~a.show_save_dialog THEN a
    ELSE IF inp.click = "dialog_save"
    THEN [new_file(gui_save_file(a, inp.file)) EXCEPT !.show_save_dialog = FALSE]
    ELSE IF inp.click = "dialog_dont_save"
    THEN [new_file(a) EXCEPT !.show_save_dialog = FALSE]
    ELSE IF inp.click \in {"dialog_cancel", "dialog_close"}
    THEN [a EXCEPT !.show_save_dialog = FALSE]
    ELSE a

\* TextEditor::update: one frame
update(a, inp) ==
    save_dialog(central_panel(menu_bar(handle_search(a, inp), inp), inp), inp)

InitGui ==
    /\ program = "gui"
    /\ app = TextEditor_default

\* one frame of the GUI program on the input inp
Frame(inp) ==
    /\ program = "gui"
    /\ app' = update(app, inp)
    /\ UNCHANGED <<editor, pc, program>>

\* a frame in which a search shortcut key is pressed
FrameShortcut ==
    \E k \in {"ctrl_f", "f3", "shift_f3"} : Frame([NoInput EXCEPT !.key = k])

\* a frame in which the shown search panel is used: its field is typed into, one
\* of its widgets is clicked, or both
FramePanel ==
    /\ app.search_module.show_search
    /\ \E typed \in BOOLEAN, q \in GuiQueries,
          c \in {"none", "close_button", "checkbox", "previous", "next", "window_close"} :
          /\ typed \/ c # "none"
          /\ typed => q # app.search_module.search_text
          /\ Frame([NoInput EXCEPT !.search_edit = [changed |-> typed,
                                                     value |-> IF typed THEN q ELSE <<>>],
                                   !.click = c])

\* a frame in which a menu item is clicked; a file dialog may be cancelled and a
\* file operation may fail (ok = FALSE)
FrameMenu ==
    \/ \E c \in {"menu_new", "menu_find"} : Frame([NoInput EXCEPT !.click = c])
    \/ \E ok \in BOOLEAN :
          Frame([NoInput EXCEPT !.click = "menu_save", !.file = [ok |-> ok, text |-> <<>>]])
    \/ Frame([NoInput EXCEPT !.click = "menu_open"])
    \/ \E t \in GuiTexts :
          Frame([NoInput EXCEPT !.click = "menu_open", !.file = [ok |-> TRUE, text |-> t]])

\* a frame in which the text area is edited
FrameEdit ==
    \E t \in GuiTexts :
       /\ t # app.text
       /\ Frame([NoInput EXCEPT !.text_edit = [changed |-> TRUE, value |-> t]])

\* a frame in which the shown save dialog is answered
FrameDialog ==
    /\ app.show_save_dialog
    /\ \E c \in {"dialog_save", "dialog_dont_save", "dialog_cancel", "dialog_close"},
          ok \in BOOLEAN :
          Frame([NoInput EXCEPT !.click = c, !.file = [ok |-> ok, text |-> <<>>]])

NextGui == FrameShortcut \/ FramePanel \/ FrameMenu \/ FrameEdit \/ FrameDialog

-----------------------------------------------------------------------------
(* Specifications.                                                         *)

\* the terminal editor
Init == InitTerminal /\ app = TextEditor_default
Next == NextTerminal
Spec == Init /\ [][Next]_vars

\* the terminal editor with Ctrl+Q and Ctrl+S also pressed in Search mode
NextMode == NextTerminal \/ SearchControlChar
SpecMode == Init /\ [][NextMode]_vars

\* the terminal editor in a terminal that is never resized
NextNoResize == RefreshSameSize \/ NextKey
SpecNoResize == Init /\ [][NextNoResize]_vars

\* the GUI editor
GuiInit == InitGui /\ editor = Editor_new(3) /\ pc = "refresh"
SpecGui == GuiInit /\ [][NextGui]_vars

\* either program
BothInit == Init \/ GuiInit
BothNext == NextTerminal \/ NextGui
SpecBoth == BothInit /\ [][BothNext]_vars

\* a search session of either program on a given text: the terminal editor has
\* opened a file and entered Search mode; the GUI editor holds a text, shows its
\* search panel and has searched for what the search field holds
MaxSessionText == 3

\* "Hello hello HELLO" and "hello"
HelloText ==
    << 72, 101, 108, 108, 111, 32, 104, 101, 108, 108, 111, 32, 72, 69, 76, 76, 79 >>
HelloQuery == << 104, 101, 108, 108, 111 >>

\* the files of a terminal session: 'a', 'б' and "\n"
SessionFiles ==
    { s \in StringsUpTo({ <<97>>, <<208, 177>>, <<10>> }, MaxSessionText) :
        Len(s) <= MaxSessionText }
\* the texts of a GUI session: 'a', 'A', 'б' and 'Б'
SessionTexts ==
    { s \in StringsUpTo({ <<97>>, <<65>>, <<208, 177>>, <<208, 145>> }, MaxSessionText) :
        Len(s) <= MaxSessionText } \cup { HelloText }
\* what the search field of a GUI session holds at first
SessionQueries == GuiQueries \cup { HelloQuery, <<208, 177>> }

SessionInit ==
    \/ /\ program = "terminal"
       /\ pc = "key"
       /\ app = TextEditor_default
       /\ \E h \in Heights, t \in SessionFiles :
             editor = enter_search_mode(update_scroll(open_file(Editor_new(h), t)))
    \/ /\ program = "gui"
       /\ pc = "refresh"
       /\ editor = Editor_new(3)
       /\ \E t \in SessionTexts, q \in SessionQueries, cs \in BOOLEAN :
             app = [TextEditor_default EXCEPT
                       !.text = t,
                       !.search_module =
                           search_in_text([SearchModule_new EXCEPT
                                               !.search_text = q,
                                               !.case_sensitive = cs,
                                               !.show_search = TRUE], t)]
SessionNext ==
    \/ Refresh \/ SearchInput \/ SearchBackspace \/ SearchNext
    \/ FramePanel \/ FrameShortcut
SpecSearch == SessionInit /\ [][SessionNext]_vars

\* the GUI editor drawing the matches of a search over texts of several lines:
\* the text holds 'a', the two-byte 'б', "\n" and "\r", the search field 'a' or 'б'
MaxHighlightText == 3
HighlightTexts ==
    { s \in StringsUpTo({ <<97>>, <<208, 177>>, <<10>>, <<13>> }, MaxHighlightText) :
        Len(s) <= MaxHighlightText }
HighlightQueries == { <<97>>, <<208, 177>> }
HighlightInit ==
    /\ program = "gui"
    /\ pc = "refresh"
    /\ editor = Editor_new(3)
    /\ \E t \in HighlightTexts, q \in HighlightQueries, cs \in BOOLEAN :
          app = [TextEditor_default EXCEPT
                    !.text = t,
                    !.search_module =
                        search_in_text([SearchModule_new EXCEPT
                                            !.search_text = q,
                                            !.case_sensitive = cs,
                                            !.show_search = TRUE], t)]
HighlightNext == FramePanel \/ FrameShortcut \/ FrameEdit
SpecHighlight == HighlightInit /\ [][HighlightNext]_vars

-----------------------------------------------------------------------------
(* The claims.                                                             *)

\* C1: in the terminal editor, after any sequence of commands from a fresh or
\* loaded buffer, the buffer has at least one line and the cursor satisfies
\* 0 <= row < line_count and 0 <= column <= length(line[row]).
C1_CursorInBounds ==
    /\ Len(editor.content) >= 1
    /\ editor.cursor_position.y \in 0..(Len(editor.content) - 1)
    /\ editor.cursor_position.x \in 0..Len(Line(editor, editor.cursor_position.y))

\* C1's case: commands have built a buffer of several lines and a search has
\* moved the cursor to a match on a later line
C1_Witness ==
    /\ pc = "refresh"
    /\ Len(editor.content) >= 3
    /\ editor.search_mode
    /\ editor.search_matches # <<>>
    /\ editor.cursor_position.y >= 1

\* C2: at every render pass, after the scroll recompute, scroll_offset >= 0 and,
\* whenever line_count > visible_height, scroll_offset <= line_count - visible_height.
C2_ScrollWithinBuffer ==
    pc = "key" =>
        /\ editor.scroll_offset >= 0
        /\ Len(editor.content) > visible_lines(editor) =>
               editor.scroll_offset <= Len(editor.content) - visible_lines(editor)

\* C3: from every buffer and every valid cursor position, Enter and then
\* Backspace restore the buffer and the cursor exactly.
C3_EnterBackspaceRoundTrip ==
    (pc = "key" /\ ~editor.search_mode) =>
        /\ ~insert_newline_panics(editor)
        /\ LET split == process_normal_keypress(editor, Key("Enter", NoChar, "NONE"))
           IN  /\ ~delete_char_panics(split)
               /\ LET merged == process_normal_keypress(split, Key("Backspace", NoChar, "NONE"))
                  IN  /\ merged.content = editor.content
                      /\ merged.cursor_position = editor.cursor_position


\* C4: in both front-ends, whenever the match set is non-empty the current match
\* index is less than the number of matches.
C4_CurrentMatchInRange ==
    /\ editor.search_matches # <<>> =>
           editor.current_match \in 0..(Len(editor.search_matches) - 1)
    /\ app.search_module.matches # <<>> =>
           app.search_module.current_match \in 0..(Len(app.search_module.matches) - 1)

\* C4's case: the GUI editor stands on the last of several matches, and they are
\* no longer the matches of its text and query
C4_Witness ==
    /\ program = "gui"
    /\ Len(app.search_module.matches) >= 2
    /\ app.search_module.current_match = Len(app.search_module.matches) - 1
    /\ app.search_module.matches #
           search_in_text(app.search_module, app.text).matches


\* the spans ms (pairs <<start, end>>) are what the greedy left-to-right scan of
\* hay for pat finds: every span is an occurrence of pat, the spans are in
\* strictly increasing order and do not overlap, each span starts at the first
\* occurrence at or after the end of the span before it (offset 0 for the first),
\* and no occurrence starts at or after the end of the last span
GreedyScan(hay, pat, ms) ==
    LET prev_end(i) == IF i = 1 THEN 0 ELSE ms[i - 1][2]
        last_end    == IF ms = <<>> THEN 0 ELSE ms[Len(ms)][2]
    IN  /\ \A i \in 1..Len(ms) :
              /\ ms[i][2] - ms[i][1] = Len(pat)
              /\ OccursAt(hay, pat, ms[i][1])
              /\ prev_end(i) <= ms[i][1]
              /\ i > 1 => ms[i - 1][1] < ms[i][1]
              /\ \A p \in prev_end(i)..(ms[i][1] - 1) : ~OccursAt(hay, pat, p)
        /\ \A p \in last_end..Len(hay) : ~OccursAt(hay, pat, p)

\* the spans of the terminal matches ms that lie on line line_num
SpansOnLine(ms, line_num) ==
    LET on_line == SelectSeq(ms, LAMBDA m : m.line = line_num)
    IN  [i \in 1..Len(on_line) |-> << on_line[i].start, on_line[i].end >>]

\* C5: for every text and every non-empty query, search returns exactly the spans
\* of the greedy left-to-right scan that resumes at the previous span's end:
\* increasing, of the query's length, each an occurrence, non-overlapping, with
\* no occurrence wholly in a gap; "aa" in "aaa" yields exactly [0,2).
C5_NonOverlappingScan ==
    /\ (program = "terminal" /\ editor.search_query # <<>>) =>
          LET ms == perform_search(editor).search_matches
          IN  /\ \A i \in 1..Len(ms) : ms[i].line \in 0..(Len(editor.content) - 1)
              /\ \A i \in 1..(Len(ms) - 1) : ms[i].line <= ms[i + 1].line
              /\ \A l \in 0..(Len(editor.content) - 1) :
                    GreedyScan(Line(editor, l), editor.search_query, SpansOnLine(ms, l))
              /\ ms = editor.search_matches
    /\ (program = "gui" /\ app.search_module.search_text # <<>>
        /\ app.search_module.case_sensitive) =>
          GreedyScan(app.text, app.search_module.search_text,
                     search_in_text(app.search_module, app.text).matches)
    /\ (program = "gui" /\ app.search_module.search_text # <<>>
        /\ ~app.search_module.case_sensitive) =>
          GreedyScan(to_lowercase(app.text), to_lowercase(app.search_module.search_text),
                     search_in_text(app.search_module, app.text).matches)
    /\ (program = "terminal" /\ editor.content = << <<97, 97, 97>> >>
        /\ editor.search_query = <<97, 97>>) =>
          editor.search_matches = << [line |-> 0, start |-> 0, end |-> 2] >>
    /\ (program = "gui" /\ app.text = <<97, 97, 97>>
        /\ app.search_module.search_text = <<97, 97>>
        /\ app.search_module.case_sensitive) =>
          search_in_text(app.search_module, app.text).matches = << <<0, 2>> >>

\* C5's case: "aa" has been typed as the query over the line "aaa"
C5_Witness ==
    /\ program = "terminal"
    /\ editor.content = << <<97, 97, 97>> >>
    /\ editor.search_query = <<97, 97>>
    /\ Len(editor.search_matches) = 1

\* byte strings of ASCII only, and their equality up to the case of A-Z
IsAscii(s) == \A i \in 1..Len(s) : s[i] < 128
FoldByte(b) == IF b \in 65..90 THEN b + 32 ELSE b
FoldEq(s, t) == Len(s) = Len(t) /\ \A i \in 1..Len(s) : FoldByte(s[i]) = FoldByte(t[i])

\* C6: with case_sensitive = false the result is the case-sensitive scan of the
\* lower-cased text for the lower-cased query, and an occurrence is reported
\* whatever the letter case of text and query ("hello" in "Hello hello HELLO":
\* [0,5), [6,11), [12,17)); with case_sensitive = true only exact-case
\* occurrences are reported.
C6_CaseInsensitiveSearch ==
    program = "gui" =>
        LET sm   == app.search_module
            q    == sm.search_text
            text == app.text
            ms   == search_in_text(sm, text).matches
        IN  /\ ~sm.case_sensitive =>
                  /\ ms = search_in_text([sm EXCEPT !.case_sensitive = TRUE,
                                                    !.search_text = to_lowercase(q)],
                                         to_lowercase(text)).matches
                  /\ (q # <<>> /\ IsAscii(q) /\ IsAscii(text)) =>
                        /\ \A i \in 1..Len(ms) :
                              FoldEq(Slice(text, ms[i][1], ms[i][2]), q)
                        /\ \A p \in 0..Len(text) :
                              (p + Len(q) <= Len(text)
                               /\ FoldEq(Slice(text, p, p + Len(q)), q)) =>
                                  \E i \in 1..Len(ms) :
                                      p < ms[i][2] /\ ms[i][1] < p + Len(q)
            /\ sm.case_sensitive =>
                  \A i \in 1..Len(ms) :
                      ms[i][2] - ms[i][1] = Len(q) /\ OccursAt(text, q, ms[i][1])
            /\ (text = HelloText /\ q = HelloQuery /\ ~sm.case_sensitive) =>
                  ms = << <<0, 5>>, <<6, 11>>, <<12, 17>> >>
            /\ (text = HelloText /\ q = HelloQuery /\ sm.case_sensitive) =>
                  ms = << <<6, 11>> >>

\* C6's case: "hello" has been searched for in "Hello hello HELLO" without regard
\* to case
C6_Witness ==
    /\ program = "gui"
    /\ app.text = HelloText
    /\ app.search_module.search_text = HelloQuery
    /\ ~app.search_module.case_sensitive
    /\ Len(app.search_module.matches) = 3


\* C7: a search with an empty query yields an empty match set, for every text and
\* either case setting, whatever matches were there before; in the terminal
\* editor Backspace on the query's last char leaves the match set empty, and
\* Backspace on an empty query changes nothing.
C7_EmptyQuery ==
    /\ program = "gui" =>
          \A cs \in BOOLEAN :
              LET sm == [app.search_module EXCEPT !.search_text = <<>>,
                                                  !.case_sensitive = cs]
              IN  search_in_text(sm, app.text) =
                      [sm EXCEPT !.matches = <<>>, !.current_match = 0]
    /\ (program = "terminal" /\ editor.search_mode) =>
          LET after == process_search_keypress(editor, Key("Backspace", NoChar, "NONE"))
          IN  /\ editor.search_query = <<>> =>
                    after = editor /\ editor.search_matches = <<>>
              /\ (editor.search_query # <<>> /\ String_pop(editor.search_query) = <<>>) =>
                    /\ after.search_query = <<>>
                    /\ after.search_matches = <<>>
                    /\ after.content = editor.content
          /\ perform_search([editor EXCEPT !.search_query = <<>>]).search_matches = <<>>

\* C7's case: the terminal query has been emptied again by Backspace (the cursor
\* still stands on the match the query had found) and no match is left
C7_Witness ==
    /\ program = "terminal"
    /\ editor.search_mode
    /\ editor.search_query = <<>>
    /\ editor.search_matches = <<>>
    /\ editor.cursor_position # [x |-> 0, y |-> 0]

\* the current_match indices that n calls of SearchModule::next_match visit
RECURSIVE NextVisits(_, _)
NextVisits(sm, n) ==
    IF n = 0 THEN <<>>
    ELSE LET stepped == next_match(sm)
         IN  << stepped.current_match >> \o NextVisits(stepped, n - 1)

\* the current_match indices that n calls of Editor::find_next_match visit
RECURSIVE FindNextVisits(_, _)
FindNextVisits(e, n) ==
    IF n = 0 THEN <<>>
    ELSE LET stepped == find_next_match(e)
         IN  << stepped.current_match >> \o FindNextVisits(stepped, n - 1)

\* visits returns to index i after visiting each of the n indices exactly once
CycleOnce(visits, i, n) ==
    /\ Len(visits) = n
    /\ visits[n] = i
    /\ { visits[k] : k \in 1..n } = 0..(n - 1)

\* C8: for a non-empty match set of size n and any current index i < n, n calls
\* of next() return current_match to i and visit every match exactly once.
C8_CyclicNext ==
    /\ (program = "gui" /\ app.search_module.matches # <<>>) =>
          CycleOnce(NextVisits(app.search_module, Len(app.search_module.matches)),
                    app.search_module.current_match, Len(app.search_module.matches))
    /\ (program = "terminal" /\ editor.search_matches # <<>>) =>
          CycleOnce(FindNextVisits(editor, Len(editor.search_matches)),
                    editor.current_match, Len(editor.search_matches))

\* C8's case: next has moved the terminal editor to the last of several matches
C8_Witness ==
    /\ program = "terminal"
    /\ Len(editor.search_matches) >= 3
    /\ editor.current_match = Len(editor.search_matches) - 1

\* C9: previous() retreats current_match cyclically (0 goes to length - 1), it
\* undoes next() and next() undoes it; on an empty match set both change
\* nothing; neither ever changes the match set or the query.
C9_PreviousIsInverse ==
    program = "gui" =>
        LET sm == app.search_module
            n  == Len(sm.matches)
        IN  /\ n > 0 =>
                  /\ previous_match(sm).current_match = (sm.current_match + n - 1) % n
                  /\ previous_match(next_match(sm)) = sm
                  /\ next_match(previous_match(sm)) = sm
            /\ n = 0 => next_match(sm) = sm /\ previous_match(sm) = sm
            /\ next_match(sm).matches = sm.matches
            /\ previous_match(sm).matches = sm.matches
            /\ next_match(sm).search_text = sm.search_text
            /\ previous_match(sm).search_text = sm.search_text

\* C9's case: the GUI editor has been moved to the last of several matches, from
\* where next() wraps to the first and previous() comes back
C9_Witness ==
    /\ program = "gui"
    /\ Len(app.search_module.matches) >= 3
    /\ app.search_module.current_match = Len(app.search_module.matches) - 1
    /\ next_match(app.search_module).current_match = 0

\* C10: jump_to with an index >= matches.length (any index when there are no
\* matches) changes neither the cursor nor current_match and never wraps; with a
\* valid index it sets current_match to that index.
C10_JumpToOutOfRange ==
    /\ program = "terminal" =>
          \A i \in 0..(2 * Len(editor.search_matches) + 1) :
              IF i >= Len(editor.search_matches)
              THEN jump_to_match(editor, i) = editor
              ELSE /\ jump_to_match(editor, i).current_match = i
                   /\ jump_to_match(editor, i).cursor_position =
                          [x |-> editor.search_matches[i + 1].start,
                           y |-> editor.search_matches[i + 1].line]
    /\ program = "gui" =>
          \A i \in 0..(2 * Len(app.search_module.matches) + 1) :
              LET at == get_current_match_position(
                            [app.search_module EXCEPT !.current_match = i])
              IN  IF i >= Len(app.search_module.matches) THEN at = <<>>
                  ELSE at = << app.search_module.matches[i + 1] >>

\* C10's case: the terminal editor holds several matches and stands on a later
\* one, so that an index past the end could wrap onto an earlier match
C10_Witness ==
    /\ program = "terminal"
    /\ Len(editor.search_matches) >= 2
    /\ editor.current_match >= 1


\* the lines ls joined by "\n"
RECURSIVE JoinLines(_)
JoinLines(ls) ==
    IF ls = <<>> THEN <<>>
    ELSE IF Len(ls) = 1 THEN ls[1]
    ELSE ls[1] \o <<10>> \o JoinLines(Tail(ls))

\* C11: Backspace with the cursor at row 0, column 0 leaves the buffer, the cursor
\* and every other part of the editor unchanged, and does not fail.
C11_BackspaceAtStart ==
    (program = "terminal" /\ pc = "key" /\ ~editor.search_mode
     /\ editor.cursor_position = [x |-> 0, y |-> 0]) =>
        /\ ~process_keypress_panics(editor, Key("Backspace", NoChar, "NONE"))
        /\ process_keypress(editor, Key("Backspace", NoChar, "NONE")) = editor

\* C11's case: the editor waits for a key with the cursor at the start of a
\* buffer of several lines whose first line is not empty
C11_Witness ==
    /\ program = "terminal" /\ pc = "key" /\ ~editor.search_mode
    /\ editor.cursor_position = [x |-> 0, y |-> 0]
    /\ Len(editor.content) >= 2
    /\ Line(editor, 0) # <<>>

\* C12: loading replaces the whole buffer with the file's lines (the text split
\* at its line terminators) and always leaves at least one line; empty content
\* gives exactly one empty line.
C12_LoadReplacesBuffer ==
    program = "terminal" =>
        \A t \in FileTexts :
            LET loaded == open_file(editor, t).content
            IN  /\ Len(loaded) >= 1
                /\ \A i \in 1..Len(loaded) : \A k \in 1..Len(loaded[i]) : loaded[i][k] # 10
                /\ t = <<>> => loaded = << <<>> >>
                /\ t # <<>> => /\ t[Len(t)] = 10 => JoinLines(loaded) \o <<10>> = t
                               /\ t[Len(t)] # 10 => JoinLines(loaded) = t

\* C12's case: the editor has loaded a file of several lines, the first of them
\* empty, and a line has since been added to it
C12_Witness ==
    /\ program = "terminal"
    /\ editor.filename = "opened"
    /\ Len(editor.content) >= 3
    /\ Line(editor, 0) = <<>>
    /\ Line(editor, 1) = <<97>>

\* C13: after exit-search (Escape or Enter in Search mode) the editor is in Normal
\* mode, the query is empty and the match set is empty.
C13_ExitSearchClears ==
    (program = "terminal" /\ pc = "key" /\ editor.search_mode) =>
        \A code \in {"Esc", "Enter"} :
            LET after == process_keypress(editor, Key(code, NoChar, "NONE"))
            IN  /\ ~after.search_mode
                /\ after.search_query = <<>>
                /\ after.search_matches = <<>>


\* C14: in the GUI editor, whenever the search panel is not shown, however it was
\* closed, the search text is empty and the match set is empty.
C14_ClosedPanelIsCleared ==
    (program = "gui" /\ ~app.search_module.show_search) =>
        /\ app.search_module.search_text = <<>>
        /\ app.search_module.matches = <<>>

\* C15: in the GUI editor, immediately after a file is loaded or a new file is
\* created the match set is empty, the query is empty and current_match is 0.
C15_LoadClearsSearch ==
    program = "gui" =>
        LET cleared(a) == /\ a.search_module.matches = <<>>
                          /\ a.search_module.search_text = <<>>
                          /\ a.search_module.current_match = 0
        IN  /\ \A t \in GuiTexts :
                  cleared(update(app, [NoInput EXCEPT !.click = "menu_open",
                                                      !.file = [ok |-> TRUE, text |-> t]]))
            /\ ~app.unsaved_changes =>
                  cleared(update(app, [NoInput EXCEPT !.click = "menu_new"]))

\* C16: in the GUI editor the stored match set is, in every reachable state, the
\* result of a fresh search of the current text for the current query and case
\* setting.
C16_MatchesNeverStale ==
    program = "gui" =>
        app.search_module.matches =
            search_in_text(app.search_module, app.text).matches


\* C17: in Search mode no key event changes the buffer; every character key other
\* than Ctrl-F, whatever its modifiers, is appended to the query, and Backspace
\* removes the query's last char.
C17_SearchModeInterceptsKeys ==
    (program = "terminal" /\ pc = "key" /\ editor.search_mode) =>
        \A key \in KeyEvents :
            LET after == process_keypress(editor, key)
            IN  /\ ~process_keypress_panics(editor, key)
                /\ after.content = editor.content
                /\ (key.code = "Char" /\ ~(key.c = <<102>> /\ key.modifiers = "CONTROL")) =>
                       after.search_query = editor.search_query \o key.c
                /\ key.code = "Backspace" =>
                       IF editor.search_query = <<>> THEN after.search_query = <<>>
                       ELSE \E c \in KeyChars :
                               after.search_query \o c = editor.search_query

\* C17's case: in Search mode a two-byte char has been typed as the query over a
\* buffer of several lines and the search has moved the cursor to a match
C17_Witness ==
    /\ program = "terminal" /\ pc = "key" /\ editor.search_mode
    /\ editor.search_query = <<208, 177>>
    /\ Len(editor.content) >= 2
    /\ editor.search_matches # <<>>
    /\ editor.cursor_position.y >= 1


\* C18: with multi-byte chars among the typed ones, the cursor column always
\* denotes a char boundary of its line, no insert or delete aborts, and InsertChar
\* leaves the cursor immediately after the inserted char.
C18_CursorOnCharBoundary ==
    program = "terminal" =>
        /\ pc # "panicked"
        /\ is_char_boundary(Line(editor, editor.cursor_position.y),
                            editor.cursor_position.x)
        /\ (pc = "key" /\ ~editor.search_mode) =>
              \A c \in KeyChars :
                  LET key == Key("Char", c, "NONE")
                  IN  /\ ~process_keypress_panics(editor, key)
                      /\ process_keypress(editor, key).cursor_position.x =
                             editor.cursor_position.x + Len(c)

\* C19: page_up sets scroll_offset to max(0, scroll_offset - visible_height),
\* moves the cursor row to max(0, row - visible_height) and clamps the column to
\* the destination line's length, also when scroll_offset < visible_height.
C19_PageUp ==
    (program = "terminal" /\ pc = "key" /\ ~editor.search_mode) =>
        LET after == process_keypress(editor, Key("PageUp", NoChar, "NONE"))
            vh    == editor.terminal_size - 2
            row   == Max(0, editor.cursor_position.y - vh)
        IN  /\ after.scroll_offset = Max(0, editor.scroll_offset - vh)
            /\ after.cursor_position.y = row
            /\ after.cursor_position.x =
                   Min(editor.cursor_position.x, Len(editor.content[row + 1]))
            /\ after.content = editor.content

\* C20: page_down sets scroll_offset to
\* min(scroll_offset + visible_height, max(0, line_count - visible_height)), moves
\* the cursor row to min(row + visible_height, line_count - 1), clamps the column
\* to the destination line's length and never changes the buffer.
C20_PageDown ==
    (program = "terminal" /\ pc = "key" /\ ~editor.search_mode) =>
        LET after == process_keypress(editor, Key("PageDown", NoChar, "NONE"))
            vh    == editor.terminal_size - 2
            lc    == Len(editor.content)
            row   == Min(editor.cursor_position.y + vh, lc - 1)
        IN  /\ after.scroll_offset = Min(editor.scroll_offset + vh, Max(0, lc - vh))
            /\ after.cursor_position.y = row
            /\ after.cursor_position.x =
                   Min(editor.cursor_position.x, Len(editor.content[row + 1]))
            /\ after.content = editor.content
            /\ [after EXCEPT !.scroll_offset = 0, !.cursor_position = 0] =
                   [editor EXCEPT !.scroll_offset = 0, !.cursor_position = 0]

\* C20's case: the editor waits for a key in a buffer longer than the window, with
\* the cursor in a column the destination line does not have, where PageDown moves
\* the row by a full page and the scroll offset by less
C20_Witness ==
    /\ program = "terminal" /\ pc = "key" /\ ~editor.search_mode
    /\ editor.terminal_size - 2 = 2
    /\ Len(editor.content) = 4
    /\ editor.scroll_offset = 1
    /\ editor.cursor_position.y = 1
    /\ editor.cursor_position.x > Len(Line(editor, 3))


\* C21: the scroll recompute follows its rule and, for visible_height >= 1,
\* establishes scroll_offset <= cursor_row < scroll_offset + visible_height; at
\* every render pass the cursor row is inside the window and
\* scroll_offset < line_count.
C21_ScrollFollowsCursor ==
    program = "terminal" =>
        LET vh    == editor.terminal_size - 2
            row   == editor.cursor_position.y
            after == update_scroll(editor)
        IN  /\ after.scroll_offset =
                   IF row >= editor.scroll_offset + vh THEN row - vh + 1
                   ELSE IF row < editor.scroll_offset THEN row
                   ELSE editor.scroll_offset
            /\ [after EXCEPT !.scroll_offset = 0] = [editor EXCEPT !.scroll_offset = 0]
            /\ vh >= 1 => /\ after.scroll_offset <= row
                          /\ row < after.scroll_offset + vh
            /\ pc = "key" => /\ editor.scroll_offset <= row
                             /\ row < editor.scroll_offset + vh
                             /\ editor.scroll_offset < Len(editor.content)

\* C21's case: the screen has been drawn with the window scrolled down so that
\* the cursor is on its last row
C21_Witness ==
    /\ program = "terminal" /\ pc = "key"
    /\ editor.terminal_size - 2 = 2
    /\ editor.scroll_offset >= 1
    /\ editor.cursor_position.y = editor.scroll_offset + 1

NormalKeyWait == program = "terminal" /\ pc = "key" /\ ~editor.search_mode

\* the editor e without its cursor
WithoutCursor(e) == [e EXCEPT !.cursor_position = 0]

\* C23: enter-search (Ctrl-F in Normal mode) switches to Search mode with an empty
\* query, an empty match set and current_match = 0, and leaves the buffer, the
\* cursor and the scroll offset unchanged.
C23_EnterSearch ==
    NormalKeyWait =>
        LET after == process_keypress(editor, Key("Char", <<102>>, "CONTROL"))
        IN  /\ after = [editor EXCEPT !.search_mode = TRUE, !.search_query = <<>>,
                                      !.search_matches = <<>>, !.current_match = 0]
            /\ after.search_mode
            /\ after.search_query = <<>>
            /\ after.search_matches = <<>>
            /\ after.current_match = 0
            /\ after.content = editor.content
            /\ after.cursor_position = editor.cursor_position
            /\ after.scroll_offset = editor.scroll_offset

\* C23's case: the editor is back in Normal mode after a search whose query is
\* still stored, with the cursor where the search left it
C23_Witness ==
    /\ NormalKeyWait
    /\ editor.search_query # <<>>
    /\ editor.cursor_position.y >= 1

\* C24: ArrowLeft at column 0 of a row > 0 goes to the end of the previous line
\* and at (0,0) does nothing; ArrowRight at the end of a non-last line goes to
\* column 0 of the next line and at the end of the last line does nothing;
\* otherwise the column changes by one.  ArrowRight then ArrowLeft restores the
\* cursor except at the end of the document; neither changes the buffer.
C24_ArrowLeftRight ==
    NormalKeyWait =>
        LET x     == editor.cursor_position.x
            y     == editor.cursor_position.y
            len   == Len(editor.content[y + 1])
            last  == Len(editor.content) - 1
            left  == process_keypress(editor, Key("Left", NoChar, "NONE"))
            right == process_keypress(editor, Key("Right", NoChar, "NONE"))
            back  == process_keypress(right, Key("Left", NoChar, "NONE"))
        IN  /\ left.cursor_position =
                   IF x > 0 THEN [x |-> x - 1, y |-> y]
                   ELSE IF y > 0 THEN [x |-> Len(editor.content[y]), y |-> y - 1]
                   ELSE [x |-> 0, y |-> 0]
            /\ right.cursor_position =
                   IF x < len THEN [x |-> x + 1, y |-> y]
                   ELSE IF y < last THEN [x |-> 0, y |-> y + 1]
                   ELSE [x |-> x, y |-> y]
            /\ ~(x = len /\ y = last) => back.cursor_position = editor.cursor_position
            /\ WithoutCursor(left) = WithoutCursor(editor)
            /\ WithoutCursor(right) = WithoutCursor(editor)

\* C24's case: the cursor is at the end of a non-empty line that is not the last
C24_Witness ==
    /\ NormalKeyWait
    /\ editor.cursor_position.y < Len(editor.content) - 1
    /\ editor.cursor_position.x = Len(Line(editor, editor.cursor_position.y))
    /\ editor.cursor_position.x >= 1

\* C25: ArrowUp/ArrowDown change the row by one when the destination line exists
\* and set the column to min(old column, length of the destination line); on the
\* first row (Up) or the last row (Down) the cursor stays; no line is added,
\* removed or modified.
C25_ArrowUpDown ==
    NormalKeyWait =>
        LET x    == editor.cursor_position.x
            y    == editor.cursor_position.y
            last == Len(editor.content) - 1
            up   == process_keypress(editor, Key("Up", NoChar, "NONE"))
            down == process_keypress(editor, Key("Down", NoChar, "NONE"))
        IN  /\ up.cursor_position =
                   IF y > 0 THEN [x |-> Min(x, Len(editor.content[y])), y |-> y - 1]
                   ELSE [x |-> x, y |-> y]
            /\ down.cursor_position =
                   IF y < last THEN [x |-> Min(x, Len(editor.content[y + 2])), y |-> y + 1]
                   ELSE [x |-> x, y |-> y]
            /\ WithoutCursor(up) = WithoutCursor(editor)
            /\ WithoutCursor(down) = WithoutCursor(editor)

\* C25's case: the cursor is in a column that the line below does not have
C25_Witness ==
    /\ NormalKeyWait
    /\ editor.cursor_position.y < Len(editor.content) - 1
    /\ editor.cursor_position.x > Len(Line(editor, editor.cursor_position.y + 1))


\* the lines of the editors e and f agree everywhere but on rows from..to of e,
\* which f replaces by delta more (or, if negative, fewer) rows
OtherLinesKept(e, f, from, to, delta) ==
    /\ Len(f.content) = Len(e.content) + delta
    /\ \A i \in 0..(Len(e.content) - 1) :
          /\ i < from => f.content[i + 1] = e.content[i + 1]
          /\ i > to => f.content[i + 1 + delta] = e.content[i + 1]

\* C26: InsertChar(c) at a valid cursor (row, col) turns line[row] into
\* prefix[0..col) + c + suffix[col..], advances the column by one and leaves the
\* row, the line count and every other line unchanged.
C26_InsertChar ==
    NormalKeyWait =>
        \A c \in KeyChars :
            LET key   == Key("Char", c, "NONE")
                x     == editor.cursor_position.x
                y     == editor.cursor_position.y
                line  == editor.content[y + 1]
                after == process_keypress(editor, key)
            IN  /\ ~process_keypress_panics(editor, key)
                /\ after.content[y + 1] =
                       SubSeq(line, 1, x) \o c \o SubSeq(line, x + 1, Len(line))
                /\ after.cursor_position = [x |-> x + 1, y |-> y]
                /\ OtherLinesKept(editor, after, y, y, 0)

\* C27: Backspace with column > 0 removes the char immediately before the cursor
\* and decrements the column; with column 0 and row > 0 it replaces lines row-1
\* and row by their concatenation, reduces the line count by one and puts the
\* cursor at (row-1, former length of line row-1); all other lines are unchanged.
C27_Backspace ==
    NormalKeyWait =>
        LET key   == Key("Backspace", NoChar, "NONE")
            x     == editor.cursor_position.x
            y     == editor.cursor_position.y
            line  == editor.content[y + 1]
            after == process_keypress(editor, key)
        IN  /\ ~process_keypress_panics(editor, key)
            /\ x > 0 =>
                  /\ \E c \in KeyChars :
                        /\ Len(c) <= x
                        /\ SubSeq(line, x - Len(c) + 1, x) = c
                        /\ after.content[y + 1] =
                               SubSeq(line, 1, x - Len(c)) \o SubSeq(line, x + 1, Len(line))
                  /\ after.cursor_position = [x |-> x - 1, y |-> y]
                  /\ OtherLinesKept(editor, after, y, y, 0)
            /\ (x = 0 /\ y > 0) =>
                  /\ after.content[y] = editor.content[y] \o line
                  /\ after.cursor_position = [x |-> Len(editor.content[y]), y |-> y - 1]
                  /\ OtherLinesKept(editor, after, y - 1, y, -1)

\* C28: Enter at (row, col) replaces line[row] by its prefix [0..col), inserts its
\* suffix [col..] as a new line at row+1, increases the line count by one, moves
\* the cursor to (row+1, 0) and leaves every other line and their order unchanged.
C28_Enter ==
    NormalKeyWait =>
        LET key   == Key("Enter", NoChar, "NONE")
            x     == editor.cursor_position.x
            y     == editor.cursor_position.y
            line  == editor.content[y + 1]
            after == process_keypress(editor, key)
        IN  /\ ~process_keypress_panics(editor, key)
            /\ after.content[y + 1] = SubSeq(line, 1, x)
            /\ after.content[y + 2] = SubSeq(line, x + 1, Len(line))
            /\ after.cursor_position = [x |-> 0, y |-> y + 1]
            /\ OtherLinesKept(editor, after, y, y, 1)


\* C29: in every Search-mode state whose match set is non-empty the cursor is at
\* (line, start) of matches[current_match]; a search that finds no match leaves
\* the cursor where it was.
C29_CursorOnCurrentMatch ==
    (program = "terminal" /\ editor.search_mode) =>
        /\ editor.search_matches # <<>> =>
              /\ editor.current_match < Len(editor.search_matches)
              /\ editor.cursor_position =
                     [x |-> editor.search_matches[editor.current_match + 1].start,
                      y |-> editor.search_matches[editor.current_match + 1].line]
        /\ \A key \in { Key("Char", c, "NONE") : c \in KeyChars }
                      \cup { Key("Backspace", NoChar, "NONE"), Key("Char", <<102>>, "CONTROL") } :
              LET after == process_keypress(editor, key)
              IN  IF after.search_matches = <<>>
                  THEN after.cursor_position = editor.cursor_position
                  ELSE after.cursor_position =
                           [x |-> after.search_matches[after.current_match + 1].start,
                            y |-> after.search_matches[after.current_match + 1].line]

\* C29's case: search-next has moved the cursor to a later match on a later line
C29_Witness ==
    /\ program = "terminal" /\ editor.search_mode
    /\ Len(editor.search_matches) >= 2
    /\ editor.current_match >= 1
    /\ editor.cursor_position.y >= 1

\* C30: every stored match (line, start, end) of the terminal editor has
\* line < line_count, start < end <= length(line[line]) and
\* line[line][start..end) equal to the query; matches are ordered by
\* (line, start); in Normal mode the match set is empty.
C30_MatchesValid ==
    program = "terminal" =>
        LET ms == editor.search_matches
        IN  /\ \A i \in 1..Len(ms) :
                  /\ ms[i].line < Len(editor.content)
                  /\ ms[i].start < ms[i].end
                  /\ ms[i].end <= Len(editor.content[ms[i].line + 1])
                  /\ SubSeq(editor.content[ms[i].line + 1], ms[i].start + 1, ms[i].end) =
                         editor.search_query
            /\ \A i \in 1..(Len(ms) - 1) :
                  \/ ms[i].line < ms[i + 1].line
                  \/ ms[i].line = ms[i + 1].line /\ ms[i].start < ms[i + 1].start
            /\ ~editor.search_mode => ms = <<>>

\* C30's case: in a buffer that was typed, a search holds matches on two lines
C30_Witness ==
    /\ program = "terminal" /\ editor.search_mode
    /\ editor.filename = "None"
    /\ Len(editor.search_matches) >= 2
    /\ editor.search_matches[1].line < editor.search_matches[Len(editor.search_matches)].line


\* the bytes of the chars of line whose char index is in [start_col, end_col)
CharSlice(line, start_col, end_col) ==
    LET idx == { i \in 1..Len(line) :
                   chars_count(SubSeq(line, 1, i)) - 1 \in start_col..(end_col - 1) }
    IN  IF idx = {} THEN <<>>
        ELSE SubSeq(line, CHOOSE i \in idx : \A j \in idx : i <= j,
                          CHOOSE i \in idx : \A j \in idx : i >= j)

\* C31: for every text (multi-line, with multi-byte chars, with CRLF terminators)
\* and every match (s, e) of a search of that text, the highlight mapper emits
\* exactly one highlight (line_index, start_col, end_col), and the chars of that
\* line in [start_col, end_col) are the chars of the text in [s, e).
C31_HighlightMapping ==
    (program = "gui"
     /\ app.search_module.matches = search_in_text(app.search_module, app.text).matches) =>
        LET ms    == app.search_module.matches
            lines == str_lines(app.text)
        IN  \A i \in 1..Len(ms) :
                LET hs == SelectSeq(highlight_matches(app), LAMBDA h : h.span = ms[i])
                IN  /\ Len(hs) = 1
                    /\ CharSlice(lines[hs[1].line_index + 1], hs[1].start_col, hs[1].end_col)
                           = Slice(app.text, ms[i][1], ms[i][2])


\* C32: for every buffer, saving it (lines joined with a newline) and loading the
\* result yields a buffer equal to the original, also when its last lines are
\* empty.
C32_SaveLoadRoundTrip ==
    program = "terminal" =>
        \A h \in Heights :
            open_file(Editor_new(h), save_file_written(editor)).content = editor.content


\* Ctrl-Q
CtrlQ == Key("Char", <<113>>, "CONTROL")

\* C33, in each state: the quit flag is set exactly when the loop has ended; no
\* key but Ctrl-Q in Normal mode sets it; in Search mode Ctrl-Q and Ctrl-S are
\* appended to the query and neither quit nor save; and while the loop runs quit
\* can still be reached: the screen can be drawn, Escape or Enter returns to
\* Normal mode, and Ctrl-Q there sets the flag.
C33_ModeState ==
    program = "terminal" =>
        /\ editor.should_quit <=> pc = "done"
        /\ pc = "refresh" => ENABLED Refresh
        /\ pc = "key" =>
              /\ \A key \in KeyEvents :
                    process_keypress(editor, key).should_quit =>
                        ~editor.search_mode /\ key = CtrlQ
              /\ editor.search_mode =>
                    \A c \in { <<113>>, <<115>> } :
                        LET after == process_keypress(editor, Key("Char", c, "CONTROL"))
                        IN  /\ ~after.should_quit
                            /\ after.search_mode
                            /\ after.search_query = editor.search_query \o c
                            /\ after.filename = editor.filename
              /\ \A code \in { "Esc", "Enter" } :
                    LET normal == IF editor.search_mode
                                  THEN process_keypress(editor, Key(code, NoChar, "NONE"))
                                  ELSE editor
                    IN  /\ ~normal.search_mode
                        /\ ~process_keypress_panics(normal, CtrlQ)
                        /\ process_keypress(normal, CtrlQ).should_quit

\* C33, in each step: the flag is set only by a Ctrl-Q key press in Normal mode,
\* which ends the loop and changes nothing else, and once the loop has ended no
\* step changes the state.
C33_ModeStep ==
    /\ pc # "done"
    /\ (program = "terminal" /\ editor'.should_quit) =>
          /\ pc = "key" /\ ~editor.search_mode
          /\ editor' = [editor EXCEPT !.should_quit = TRUE]
          /\ pc' = "done"

\* C33: the terminal editor's mode machine.
C33_ModeMachine == [](C33_ModeState) /\ [][C33_ModeStep]_vars

\* C33's case: the editor has quit after a search in which Ctrl-Q was typed into
\* the query
C33_Witness ==
    /\ program = "terminal" /\ pc = "done" /\ editor.should_quit
    /\ ~editor.search_mode
    /\ editor.search_query = <<113>>

=============================================================================
